---- MODULE Spec2Model ----
(***************************************************************************)
(* AdaBoost.MH with decision stumps (labelmaker/src/ml/ml.go).             *)
(*                                                                         *)
(* Two state machines share this module:                                   *)
(*   SpecSearch  Distribution.Sample and the recursive search it calls;    *)
(*   Spec        the orchestrator AdaBoostMH: Round, Predict, Evaluate     *)
(*               (SpecE2E is the same machine started on the four-example  *)
(*               data sets of the end-to-end scenario).                    *)
(*                                                                         *)
(* float64 is modelled as a binary floating-point format with MantBits     *)
(* bits of mantissa, round-to-nearest-even, +Inf, -Inf and NaN.            *)
(***************************************************************************)
EXTENDS Integers, Naturals, Sequences, FiniteSets, TLC

(***************************************************************************)
(* Bounds of the model.                                                    *)
(***************************************************************************)
MantBits == 8
\* Distribution.Sample: the longest weight vector, and the grid of the weights
\* and draws (a weight w stands for w / Unit, so Unit stands for 1.0).
MaxLen == 3
Unit == 4
\* Frames of search the goroutine stack holds before the runtime ends the
\* program with "stack overflow".
MaxDepth == 6
\* AdaBoostMH: the largest training set, the longest feature list, the most
\* Round() calls.
MaxExamples == 2
MaxFeatures == 2
MaxRounds == 2

\* Fractional bits of the fixed-point arithmetic inside Exp and Log.
FracBits == MantBits + 6

(***************************************************************************)
(* float64 values: m * 2^e with 2^(MantBits-1) <= |m| < 2^MantBits, or     *)
(* zero, or an infinity (m is its sign), or NaN.                           *)
(***************************************************************************)
Fin(m, e) == [k |-> "fin", m |-> m, e |-> e]
Zero == Fin(0, 0)
PosInf == [k |-> "inf", m |-> 1, e |-> 0]
NegInf == [k |-> "inf", m |-> -1, e |-> 0]
NaN == [k |-> "nan", m |-> 0, e |-> 0]

Abs(n) == IF n < 0 THEN -n ELSE n
Sgn(n) == IF n < 0 THEN -1 ELSE IF n > 0 THEN 1 ELSE 0

RECURSIVE BitLen(_)
BitLen(a) == IF a = 0 THEN 0 ELSE 1 + BitLen(a \div 2)

\* a / 2^sh rounded to nearest, ties to even (a >= 0, sh >= 1).
RoundShift(a, sh) ==
    LET q == a \div 2^sh
        r == a % 2^sh
        half == 2^(sh - 1)
    IN  IF r > half \/ (r = half /\ q % 2 = 1) THEN q + 1 ELSE q

\* The float64 nearest to m * 2^e; beyond the largest exponent it is an
\* infinity, below the smallest subnormal it is zero.
Normalise(m, e) ==
    IF m = 0 THEN Zero
    ELSE LET a == Abs(m)
             nb == BitLen(a)
             sh == nb - MantBits
             q0 == IF sh > 0 THEN RoundShift(a, sh) ELSE a * 2^(-sh)
             carry == q0 = 2^MantBits
             q == IF carry THEN 2^(MantBits - 1) ELSE q0
             ex == IF carry THEN e + sh + 1 ELSE e + sh
         IN  IF ex + MantBits - 1 > 1023
             THEN [k |-> "inf", m |-> Sgn(m), e |-> 0]
             ELSE IF ex + MantBits - 1 < -1074 THEN Zero
             ELSE Fin(Sgn(m) * q, ex)

IsNaN(x) == x.k = "nan"
IsInf(x) == x.k = "inf"
IsFinite(x) == x.k = "fin"

\* x + y
Add(x, y) ==
    IF IsNaN(x) \/ IsNaN(y) THEN NaN
    ELSE IF IsInf(x) THEN (IF IsInf(y) /\ y.m # x.m THEN NaN ELSE x)
    ELSE IF IsInf(y) THEN y
    ELSE IF x.m = 0 THEN y
    ELSE IF y.m = 0 THEN x
    ELSE IF x.e - y.e > MantBits + 2 THEN x
    ELSE IF y.e - x.e > MantBits + 2 THEN y
    ELSE LET e == IF x.e < y.e THEN x.e ELSE y.e
         IN  Normalise(x.m * 2^(x.e - e) + y.m * 2^(y.e - e), e)

\* x * y
Mul(x, y) ==
    IF IsNaN(x) \/ IsNaN(y) THEN NaN
    ELSE IF IsInf(x) \/ IsInf(y)
         THEN (IF x.m = 0 \/ y.m = 0 THEN NaN
               ELSE [k |-> "inf", m |-> Sgn(x.m) * Sgn(y.m), e |-> 0])
    ELSE Normalise(x.m * y.m, x.e + y.e)

\* x / y; a finite non-zero x divided by zero is an infinity, as in Go.
Div(x, y) ==
    IF IsNaN(x) \/ IsNaN(y) THEN NaN
    ELSE IF IsInf(x)
         THEN (IF IsInf(y) THEN NaN
               ELSE [k |-> "inf", m |-> x.m * (IF y.m < 0 THEN -1 ELSE 1), e |-> 0])
    ELSE IF IsInf(y) THEN Zero
    ELSE IF y.m = 0
         THEN (IF x.m = 0 THEN NaN ELSE [k |-> "inf", m |-> Sgn(x.m), e |-> 0])
    ELSE LET num == Abs(x.m) * 2^(MantBits + 2)
             q == num \div Abs(y.m)
             sticky == IF num % Abs(y.m) = 0 THEN 0 ELSE 1
         IN  Normalise(Sgn(x.m) * Sgn(y.m) * (2 * q + sticky),
                       x.e - y.e - (MantBits + 2) - 1)

\* x == y; false when either is NaN.
FloatEq(x, y) == ~IsNaN(x) /\ ~IsNaN(y) /\ x = y

\* x < y; false when either is NaN.
Less(x, y) ==
    IF IsNaN(x) \/ IsNaN(y) THEN FALSE
    ELSE IF IsInf(x) THEN x.m < 0 /\ ~(IsInf(y) /\ y.m < 0)
    ELSE IF IsInf(y) THEN y.m > 0
    ELSE IF Sgn(x.m) # Sgn(y.m) THEN Sgn(x.m) < Sgn(y.m)
    ELSE IF x.m = 0 THEN FALSE
    ELSE IF x.m > 0 THEN x.e < y.e \/ (x.e = y.e /\ x.m < y.m)
    ELSE x.e > y.e \/ (x.e = y.e /\ x.m < y.m)

\* float64(n) for an integer n.
FromInt(n) == Normalise(n, 0)

One == FromInt(1)
Half == Normalise(1, -1)
MinusOne == FromInt(-1)
\* math.MaxFloat64
MaxFloat64 == Fin(2^MantBits - 1, 1023 - (MantBits - 1))

RECURSIVE IsqrtBits(_, _, _)
IsqrtBits(v, r, b) ==
    IF b < 0 THEN r
    ELSE IF (r + 2^b) * (r + 2^b) <= v THEN IsqrtBits(v, r + 2^b, b - 1)
    ELSE IsqrtBits(v, r, b - 1)

\* math.Sqrt
Sqrt(x) ==
    IF IsNaN(x) THEN NaN
    ELSE IF x.m < 0 THEN NaN
    ELSE IF IsInf(x) THEN PosInf
    ELSE IF x.m = 0 THEN Zero
    ELSE LET odd == x.e % 2 # 0
             m2 == IF odd THEN 2 * x.m ELSE x.m
             e2 == IF odd THEN x.e - 1 ELSE x.e
             v == m2 * 2^(2 * MantBits)
             r == IsqrtBits(v, 0, MantBits + (MantBits + 1) \div 2 + 1)
             sticky == IF r * r = v THEN 0 ELSE 1
         IN  Normalise(2 * r + sticky, (e2 - 2 * MantBits) \div 2 - 1)

\* ln 2 in fixed point.
Ln2Fx == RoundShift(744261118, 30 - FracBits)

\* floor(a / b) for b > 0.
FloorDiv(a, b) == IF a >= 0 THEN a \div b ELSE -((-a + b - 1) \div b)

\* round(x * 2^FracBits) for a finite x with |x| < 2^10.
ToFixed(x) ==
    LET sh == x.e + FracBits
    IN  IF sh >= 0 THEN x.m * 2^sh
        ELSE IF -sh > MantBits + 1 THEN 0
        ELSE Sgn(x.m) * RoundShift(Abs(x.m), -sh)

RECURSIVE ExpSeries(_, _, _, _)
\* sum of r^n / n! from term number n on, in fixed point.
ExpSeries(r, term, n, acc) ==
    IF term = 0 THEN acc
    ELSE ExpSeries(r, (term * r) \div (n * 2^FracBits), n + 1, acc + term)

\* math.Exp
Exp(x) ==
    IF IsNaN(x) THEN NaN
    ELSE IF IsInf(x) THEN (IF x.m > 0 THEN PosInf ELSE Zero)
    ELSE IF x.m = 0 THEN One
    ELSE IF x.e + MantBits > 10 THEN (IF x.m > 0 THEN PosInf ELSE Zero)
    ELSE LET fx == ToFixed(x)
             k == FloorDiv(fx, Ln2Fx)
             r == fx - k * Ln2Fx
         IN  Normalise(ExpSeries(r, 2^FracBits, 1, 0), k - FracBits)

RECURSIVE AtanhSeries(_, _, _, _)
\* z + z^3/3 + z^5/5 + ... from the term with power pw = z^n on, in fixed point.
AtanhSeries(z2, pw, n, acc) ==
    IF pw = 0 THEN acc
    ELSE AtanhSeries(z2, (pw * z2) \div 2^FracBits, n + 2, acc + pw \div n)

\* math.Log
Log(x) ==
    IF IsNaN(x) THEN NaN
    ELSE IF x.m < 0 THEN NaN
    ELSE IF IsInf(x) THEN PosInf
    ELSE IF x.m = 0 THEN NegInf
    ELSE LET top == 2^(MantBits - 1)
             z == ((x.m - top) * 2^FracBits) \div (x.m + top)
             z2 == (z * z) \div 2^FracBits
             lnT == 2 * AtanhSeries(z2, z, 1, 0)
         IN  Normalise((x.e + MantBits - 1) * Ln2Fx + lnT, -FracBits)

(***************************************************************************)
(* State.                                                                  *)
(***************************************************************************)
VARIABLES
    \* Distribution.Sample and search
    distP,           \* dist.P, indexed from 0
    s,               \* the draw r.Float64()
    cumulative,      \* the prefix sums, indexed from 0
    startInclusive,  \* the arguments of the active call of search
    endExclusive,
    depth,           \* frames of search on the stack
    pc,              \* "idle", "search", "returned", "panicked", "oob", "overflow"
    result,          \* the index search returned
    \* AdaBoostMH
    stumper,         \* a.Stumper: [labels, features, examples]
    Examples,        \* a.Examples
    D,               \* a.D: label -> weights
    H,               \* a.H
    h,               \* the stump of the latest Round()
    status,          \* "ok", or "panicked" once a call has panicked
    obs              \* the latest call and what it returned

searchVars == <<distP, s, cumulative, startInclusive, endExclusive, depth, pc, result>>
boostVars == <<stumper, Examples, D, H, h, status, obs>>
vars == <<distP, s, cumulative, startInclusive, endExclusive, depth, pc, result,
          stumper, Examples, D, H, h, status, obs>>

(***************************************************************************)
(* Distribution.Sample and search.                                         *)
(***************************************************************************)
LenOf(a) == Cardinality(DOMAIN a)

RECURSIVE PrefixSum(_, _)
\* sum of p[0..i]
PrefixSum(p, i) == IF i < 0 THEN 0 ELSE PrefixSum(p, i - 1) + p[i]

\* The loop of Sample: cumulative[i] = p[0] + ... + p[i].
Cumulative(p) == [i \in DOMAIN p |-> PrefixSum(p, i)]

\* mid := startInclusive + (endExclusive-startInclusive)/2
Mid(lo, hi) == lo + (hi - lo) \div 2

\* The check of the base case of search.
BaseCaseHolds(sample, cum, lo) ==
    sample <= cum[0] /\ (lo = 0 \/ cum[lo - 1] < sample)

\* dist.Sample(r): the prefix sums, one draw, and the first call of search.
Sample ==
    /\ pc = "idle"
    /\ \E draw \in 0..(Unit - 1) :
          /\ s' = draw
          /\ cumulative' = Cumulative(distP)
          /\ startInclusive' = 0
          /\ endExclusive' = LenOf(distP)
          /\ depth' = 1
          /\ pc' = "search"
    /\ UNCHANGED <<distP, result>>
    /\ UNCHANGED boostVars

\* search with startInclusive == endExclusive: return the index or panic;
\* cumulative[0] of an empty slice is an index-out-of-range panic.
SearchBase ==
    /\ pc = "search"
    /\ startInclusive = endExclusive
    /\ IF LenOf(cumulative) = 0
       THEN pc' = "oob" /\ UNCHANGED result
       ELSE IF BaseCaseHolds(s, cumulative, startInclusive)
            THEN pc' = "returned" /\ result' = startInclusive
            ELSE pc' = "panicked" /\ UNCHANGED result
    /\ UNCHANGED <<distP, s, cumulative, startInclusive, endExclusive, depth>>
    /\ UNCHANGED boostVars

\* return search(s, cumulative, startInclusive, mid)
SearchLower ==
    /\ pc = "search"
    /\ startInclusive # endExclusive
    /\ depth < MaxDepth
    /\ s < cumulative[Mid(startInclusive, endExclusive)]
    /\ endExclusive' = Mid(startInclusive, endExclusive)
    /\ depth' = depth + 1
    /\ UNCHANGED <<distP, s, cumulative, startInclusive, pc, result>>
    /\ UNCHANGED boostVars

\* return search(s, cumulative, mid, endExclusive)
SearchUpper ==
    /\ pc = "search"
    /\ startInclusive # endExclusive
    /\ depth < MaxDepth
    /\ ~(s < cumulative[Mid(startInclusive, endExclusive)])
    /\ startInclusive' = Mid(startInclusive, endExclusive)
    /\ depth' = depth + 1
    /\ UNCHANGED <<distP, s, cumulative, endExclusive, pc, result>>
    /\ UNCHANGED boostVars

\* A call of search with the stack full: the runtime's fatal "stack overflow".
SearchOverflow ==
    /\ pc = "search"
    /\ startInclusive # endExclusive
    /\ depth = MaxDepth
    /\ pc' = "overflow"
    /\ UNCHANGED <<distP, s, cumulative, startInclusive, endExclusive, depth, result>>
    /\ UNCHANGED boostVars

(***************************************************************************)
(* Examples, features, stumps.                                             *)
(*                                                                         *)
(* An Example is [id, labels]; a Feature is [id, on], on being the ids of  *)
(* the examples it tests true on.  Slices of examples and features are     *)
(* sequences (indexed from 1).                                             *)
(***************************************************************************)
LabelUniverse == {"A", "B"}

\* Example.HasLabel
HasLabel(e, l) == l \in e.labels

\* Feature.Test
Test(f, e) == e.id \in f.on

\* var fMin Feature = nil
NilFeature == [id |-> 0, on |-> {}]

\* What a call yields when it panics (a method call on the nil Feature).
PanicVal == [k |-> "panic", m |-> 0, e |-> 0]

\* DecisionStump.Predict without the -1.0 of a feature that tests false.
StumpPredictNoSentinel(d, e, l) ==
    IF d.Feature = NilFeature THEN PanicVal
    ELSE IF l \in DOMAIN d.c THEN d.c[l] ELSE Zero

\* DecisionStump.Predict; a label missing from the map c reads as 0.
StumpPredict(d, e, l) ==
    IF d.Feature = NilFeature THEN PanicVal
    ELSE IF ~Test(d.Feature, e) THEN MinusOne
    ELSE IF l \in DOMAIN d.c THEN d.c[l] ELSE Zero

\* NewDecisionStumper: the labels are those of the examples.
NewDecisionStumper(fs, es) ==
    [labels |-> UNION {es[i].labels : i \in DOMAIN es},
     features |-> fs,
     examples |-> es]

\* UniformDistribution
UniformDistribution(nitems) ==
    [i \in 1..nitems |-> Div(One, FromInt(nitems))]

\* The orders in which a range over the map of labels may visit them.
LabelOrders(labels) ==
    {p \in [1..Cardinality(labels) -> labels] :
        \A i, j \in DOMAIN p : i # j => p[i] # p[j]}

RECURSIVE WAccum(_, _, _, _, _, _)
\* w[key{b, f, l}] after the loop over the first k examples.
WAccum(st, ds, b, f, l, k) ==
    IF k = 0 THEN Zero
    ELSE LET example == st.examples[k]
         IN  IF Test(f, example) /\ HasLabel(example, l) = b
             THEN Add(WAccum(st, ds, b, f, l, k - 1), ds[l][k])
             ELSE WAccum(st, ds, b, f, l, k - 1)

\* The map w once the first loop over the features is done.
WMap(st, ds) ==
    [key \in BOOLEAN \X {st.features[j] : j \in DOMAIN st.features} \X st.labels |->
        WAccum(st, ds, key[1], key[2], key[3], Len(st.examples))]

\* w[key{b, f, l}]; a key that was never set (the nil feature) reads as 0.
W(w, b, f, l) == IF <<b, f, l>> \in DOMAIN w THEN w[<<b, f, l>>] ELSE Zero

RECURSIVE ZAccum(_, _, _, _)
\* zFeature after the first k labels of the range.
ZAccum(w, f, order, k) ==
    IF k = 0 THEN Zero
    ELSE Add(ZAccum(w, f, order, k - 1),
             Sqrt(Mul(W(w, TRUE, f, order[k]), W(w, FALSE, f, order[k]))))

ZFeature(st, ds, f, order) == ZAccum(WMap(st, ds), f, order, Len(order))

\* if zFeature < zMin
Improves(zFeature, zMin) == Less(zFeature, zMin)

\* One turn of the loop that finds fMin: from the fMin, zMin and zt so far.
ScanStep(prev, feature, zFeature) ==
    IF Improves(zFeature, prev.zMin)
    THEN [fMin |-> feature, zMin |-> zFeature, zt |-> Add(prev.zt, zFeature)]
    ELSE [prev EXCEPT !.zt = Add(prev.zt, zFeature)]

RECURSIVE ScanFeatures(_, _, _, _)
\* fMin, zMin and zt after the loop over the first k features.
ScanFeatures(st, w, order, k) ==
    IF k = 0 THEN [fMin |-> NilFeature, zMin |-> MaxFloat64, zt |-> Zero]
    ELSE ScanStep(ScanFeatures(st, w, order, k - 1),
                  st.features[k],
                  ZAccum(w, st.features[k], order, Len(order)))

\* c[label] = 0.5 * math.Log((1.0+w[true,fMin,label])/(1.0+w[false,fMin,label]))
Confidence(w, fMin, l) ==
    Mul(Half, Log(Div(Add(One, W(w, TRUE, fMin, l)),
                      Add(One, W(w, FALSE, fMin, l)))))

\* The stump built from the map w.
StumpFrom(st, w, order) ==
    LET scan == ScanFeatures(st, w, order, Len(st.features))
    IN  [Feature |-> scan.fMin,
         c |-> [l \in st.labels |-> Confidence(w, scan.fMin, l)],
         zt |-> Mul(scan.zt, FromInt(2))]

\* DecisionStumper.NewStump
NewStump(st, ds, order) == StumpFrom(st, WMap(st, ds), order)

\* hasLabel
hasLabel(e, l) == IF HasLabel(e, l) THEN One ELSE MinusOne

\* a.D[label].P[i] * math.Exp(hasLabel(example, label)*h.Predict(example, label)) / h.zt
Reweight(p, example, l, stump) ==
    Mul(p, Div(Exp(Mul(hasLabel(example, l), StumpPredict(stump, example, l))), stump.zt))

\* a.H = []*DecisionStump{h}: the new stump replaces the ensemble.
AppendedReplacing(hs, stump) == <<stump>>

\* a.H = append(a.H, h)
Appended(hs, stump) == Append(hs, stump)

RECURSIVE PredictSum(_, _, _, _)
\* sum after the first k stumps of a.H.
PredictSum(hs, e, l, k) ==
    IF k = 0 THEN Zero
    ELSE LET prev == PredictSum(hs, e, l, k - 1)
             p == StumpPredict(hs[k], e, l)
         IN  IF prev = PanicVal \/ p = PanicVal THEN PanicVal ELSE Add(prev, p)

\* AdaBoostMH.Predict
EnsemblePredict(hs, e, l) == PredictSum(hs, e, l, Len(hs))

\* The (example, label) pairs Evaluate visits.
Pairs(test, labels) == {<<i, l>> : i \in DOMAIN test, l \in labels}

\* if a.Predict(example, label) > 0.0 && example.HasLabel(label) { continue }
Skipped(hs, e, l) == Less(Zero, EnsemblePredict(hs, e, l)) /\ HasLabel(e, l)

\* AdaBoostMH.Evaluate: the count, or -1 when a Predict panics.
EvaluateCount(hs, labels, test) ==
    IF \E pr \in Pairs(test, labels) : EnsemblePredict(hs, test[pr[1]], pr[2]) = PanicVal
    THEN -1
    ELSE Cardinality({pr \in Pairs(test, labels) : ~Skipped(hs, test[pr[1]], pr[2])})

NoStump == [Feature |-> NilFeature, c |-> [l \in {} |-> Zero], zt |-> Zero]
NoObs == [op |-> "none", e |-> 0, l |-> "-", num |-> Zero, cnt |-> 0]

(***************************************************************************)
(* AdaBoostMH.                                                             *)
(***************************************************************************)
\* NewAdaBoostMH(es, NewDecisionStumper(fs, es))
NewAdaBoostMH(es, fs) ==
    /\ stumper = NewDecisionStumper(fs, es)
    /\ Examples = es
    /\ D = [l \in NewDecisionStumper(fs, es).labels |-> UniformDistribution(Len(es))]
    /\ H = <<>>
    /\ h = NoStump
    /\ status = "ok"
    /\ obs = NoObs

\* Round(): the first h.Predict of the loops panics when h has no feature.
Round ==
    /\ status = "ok"
    /\ Len(H) < MaxRounds
    /\ LET w == WMap(stumper, D)
       IN  \E order \in LabelOrders(stumper.labels) :
             LET stump == StumpFrom(stumper, w, order)
             IN  /\ h' = stump
                 /\ IF /\ stump.Feature = NilFeature
                       /\ stumper.labels # {}
                       /\ Examples # <<>>
                    THEN /\ status' = "panicked"
                         /\ UNCHANGED <<D, H>>
                    ELSE /\ D' = [l \in stumper.labels |->
                                    [i \in DOMAIN Examples |->
                                        Reweight(D[l][i], Examples[i], l, stump)]]
                         /\ H' = Appended(H, stump)
                         /\ status' = status
    /\ obs' = [NoObs EXCEPT !.op = "Round"]
    /\ UNCHANGED <<stumper, Examples>>
    /\ UNCHANGED searchVars

\* Predict(e, l) on a training example.
Predict ==
    /\ status = "ok"
    /\ \E i \in DOMAIN Examples, l \in LabelUniverse :
          LET sum == EnsemblePredict(H, Examples[i], l)
          IN  IF sum = PanicVal
              THEN /\ status' = "panicked"
                   /\ obs' = [NoObs EXCEPT !.op = "Predict", !.e = i, !.l = l]
              ELSE /\ status' = status
                   /\ obs' = [NoObs EXCEPT !.op = "Predict", !.e = i, !.l = l, !.num = sum]
    /\ UNCHANGED <<stumper, Examples, D, H, h>>
    /\ UNCHANGED searchVars

\* Evaluate(test) on the training set.
Evaluate ==
    /\ status = "ok"
    /\ LET dist == EvaluateCount(H, stumper.labels, Examples)
       IN  /\ status' = IF dist = -1 THEN "panicked" ELSE status
           /\ obs' = [NoObs EXCEPT !.op = "Evaluate", !.e = Len(Examples), !.cnt = dist]
    /\ UNCHANGED <<stumper, Examples, D, H, h>>
    /\ UNCHANGED searchVars

(***************************************************************************)
(* Specifications.                                                         *)
(***************************************************************************)
MkExamples(ls) == [i \in DOMAIN ls |-> [id |-> i, labels |-> ls[i]]]
MkFeatures(ts) == [j \in DOMAIN ts |-> [id |-> j, on |-> ts[j]]]

\* A number for each set of labels and each set of examples, to order them.
LabelCode(ls) == (IF "A" \in ls THEN 1 ELSE 0) + (IF "B" \in ls THEN 2 ELSE 0)
RECURSIVE OnCode(_)
OnCode(on) == IF on = {} THEN 0
              ELSE LET i == CHOOSE i \in on : TRUE IN 2^i + OnCode(on \ {i})

\* The training sets: up to MaxExamples examples, listed by label set (a
\* permutation of the examples permutes the weights and nothing else).
ExampleLists ==
    {MkExamples(ls) :
        ls \in {q \in UNION {[1..n -> SUBSET LabelUniverse] : n \in 0..MaxExamples} :
                  \A i \in DOMAIN q : i > 1 => LabelCode(q[i - 1]) <= LabelCode(q[i])}}

\* The feature lists: up to MaxFeatures features that differ in the examples
\* they test true on, listed in a fixed order.
FeatureLists(n) ==
    {MkFeatures(ts) :
        ts \in {q \in UNION {[1..m -> SUBSET (1..n)] : m \in 0..MaxFeatures} :
                  \A j \in DOMAIN q : j > 1 => OnCode(q[j - 1]) < OnCode(q[j])}}

SearchOff ==
    /\ distP = <<>>
    /\ s = 0
    /\ cumulative = <<>>
    /\ startInclusive = 0
    /\ endExclusive = 0
    /\ depth = 0
    /\ pc = "off"
    /\ result = 0

BoostOff ==
    /\ stumper = NewDecisionStumper(<<>>, <<>>)
    /\ Examples = <<>>
    /\ D = <<>>
    /\ H = <<>>
    /\ h = NoStump
    /\ status = "off"
    /\ obs = NoObs

\* An orchestrator over any training set and feature list within the bounds.
Init ==
    /\ SearchOff
    /\ \E es \in ExampleLists : \E fs \in FeatureLists(Len(es)) : NewAdaBoostMH(es, fs)

Next == Round \/ Predict \/ Evaluate

Spec == Init /\ [][Next]_vars

\* The end-to-end scenario: four examples, labels A and B, one feature that
\* tests true exactly on the two examples carrying A.
E2EExamples ==
    {es \in {MkExamples(ls) : ls \in [1..4 -> SUBSET LabelUniverse]} :
        /\ Cardinality({i \in 1..4 : "A" \in es[i].labels}) = 2
        /\ \E i \in 1..4 : "B" \in es[i].labels}

InitE2E ==
    /\ SearchOff
    /\ \E es \in E2EExamples :
          NewAdaBoostMH(es, MkFeatures(<<{i \in 1..4 : "A" \in es[i].labels}>>))

SpecE2E == InitE2E /\ [][Next]_vars

\* A distribution of up to MaxLen weights on the grid, not yet sampled.
InitSearch ==
    /\ BoostOff
    /\ distP \in UNION {[0..(n - 1) -> -1..Unit] : n \in 0..MaxLen}
    /\ s = 0
    /\ cumulative = <<>>
    /\ startInclusive = 0
    /\ endExclusive = 0
    /\ depth = 0
    /\ pc = "idle"
    /\ result = 0

NextSearch == Sample \/ SearchBase \/ SearchLower \/ SearchUpper \/ SearchOverflow

SpecSearch == InitSearch /\ [][NextSearch]_vars

(***************************************************************************)
(* Properties of search (checked under SpecSearch).                        *)
(***************************************************************************)
SearchEnded == pc \in {"returned", "panicked", "oob", "overflow"}

\* A non-empty, non-decreasing cumulative array whose last entry is 1.0.
ValidCumulative(cum) ==
    /\ LenOf(cum) >= 1
    /\ \A i \in DOMAIN cum : i > 0 => cum[i - 1] <= cum[i]
    /\ cum[LenOf(cum) - 1] = Unit

\* cumulative[i-1] < sample <= cumulative[i]; index 0 has no lower bound, as
\* in the check of line 38 (with the reading cumulative[-1] = 0 the draw 0
\* would have no index at all).
IndexOf(sample, cum, i) ==
    sample <= cum[i] /\ (i = 0 \/ cum[i - 1] < sample)

\* C1: on a non-empty, non-decreasing cumulative array ending at 1.0 and a
\* draw in [0,1), search (and so Sample) returns the index i with
\* cumulative[i-1] < s <= cumulative[i].  Stated for the draws s > 0, on
\* which the two readings of the bound of index 0 agree.
C1_SearchReturnsIndex ==
    (SearchEnded /\ ValidCumulative(cumulative) /\ s > 0)
        => (pc = "returned" /\ IndexOf(s, cumulative, result))

\* C2: the recursion of search terminates: every recursive call is on a
\* strictly smaller interval [startInclusive, endExclusive).  Stated for the
\* valid cumulative arrays, a part of the arrays the claim is about.
C2_IntervalShrinks ==
    [][(pc = "search" /\ pc' = "search" /\ ValidCumulative(cumulative))
          => (endExclusive' - startInclusive' < endExclusive - startInclusive)]_vars

\* C6: on a malformed cumulative array and a draw that no index matches,
\* search ends in its panic: it neither returns an index nor runs on.
C6_MalformedPanics ==
    (/\ SearchEnded
     /\ LenOf(cumulative) >= 1
     /\ ~ValidCumulative(cumulative)
     /\ ~\E i \in DOMAIN cumulative : IndexOf(s, cumulative, i))
        => pc = "panicked"

(***************************************************************************)
(* Properties of AdaBoostMH (checked under Spec, C4 under SpecE2E).        *)
(***************************************************************************)
EmptyInput ==
    stumper.examples = <<>> \/ stumper.features = <<>> \/ stumper.labels = {}

\* (Predict(example, label) > 0) differs from example.HasLabel(label)
Mismatch(hs, e, l) == Less(Zero, EnsemblePredict(hs, e, l)) # HasLabel(e, l)

\* C3: Evaluate(test) returns the number of (example, label) pairs on which
\* (Predict > 0) differs from HasLabel; a pair with Predict <= 0 whose
\* example does not carry the label is not counted.  Stated for the
\* orchestrators with examples, features and labels.
C3_EvaluateCountsMismatches ==
    (obs.op = "Evaluate" /\ status = "ok" /\ ~EmptyInput)
        => obs.cnt = Cardinality({pr \in Pairs(Examples, stumper.labels) :
                                    Mismatch(H, Examples[pr[1]], pr[2])})

C5_EmptyInputRejected ==
    EmptyInput => (obs.op # "Round" /\ H = <<>> /\ h.Feature = NoStump.Feature /\ status = "ok")

\* C7: the stump of a Round() has a feature of the list whose score Zf is
\* minimal, the first such in the list, and NewStump yields the same stump
\* whatever the order of the range over the labels.
C7_StumpIsFirstMinimum ==
    [][(obs'.op = "Round" /\ stumper.features # <<>>)
          => /\ \E order \in LabelOrders(stumper.labels) :
                  /\ h' = NewStump(stumper, D, order)
                  /\ \E k \in DOMAIN stumper.features :
                        LET zk == ZFeature(stumper, D, stumper.features[k], order)
                        IN  /\ h'.Feature = stumper.features[k]
                            /\ \A j \in DOMAIN stumper.features :
                                  LET zj == ZFeature(stumper, D, stumper.features[j], order)
                                  IN  /\ ~Less(zj, zk)
                                      /\ (j < k => ~FloatEq(zj, zk))
             /\ \A o1, o2 \in LabelOrders(stumper.labels) :
                  NewStump(stumper, D, o1) = NewStump(stumper, D, o2)]_vars

\* C8: H starts empty; a completed Round() appends exactly one stump and
\* leaves the earlier ones as they were; Predict and Evaluate change neither
\* H nor any distribution, and a Predict repeated with no Round() in between
\* returns the same value.
C8_EnsembleAppendOnly ==
    /\ H = <<>>
    /\ [][
          /\ (obs'.op = "Round" /\ status' = "ok")
                => (Len(H') = Len(H) + 1 /\ SubSeq(H', 1, Len(H)) = H)
          /\ (obs'.op = "Round" /\ status' # "ok") => (H' = H)
          /\ (obs'.op \in {"Predict", "Evaluate"}) => (H' = H /\ D' = D)
          /\ (obs'.op = "Predict" /\ status' = "ok")
                => (obs'.num = EnsemblePredict(H, Examples[obs'.e], obs'.l))
       ]_vars

\* Two rounds done, then a Predict.
C8_Witness == Len(H) = 2 /\ obs.op = "Predict" /\ H[1] # H[2]

\* C9: for a label l and two examples of equal weight in D_l, if the new
\* stump misclassifies (i, l) and classifies (j, l) correctly, then after
\* the round D_l[i] > D_l[j].  Stated for the rounds whose zt is positive and
\* finite, where the division by zt is defined.
C9_EmphasizesMisclassified ==
    [][(obs'.op = "Round" /\ status' = "ok" /\ Less(Zero, h'.zt) /\ IsFinite(h'.zt))
          => \A l \in stumper.labels : \A i, j \in DOMAIN Examples :
                (/\ D[l][i] = D[l][j]
                 /\ Less(Mul(hasLabel(Examples[i], l), StumpPredict(h', Examples[i], l)), Zero)
                 /\ Less(Zero, Mul(hasLabel(Examples[j], l), StumpPredict(h', Examples[j], l))))
                    => Less(D'[l][j], D'[l][i])]_vars

\* C10: with non-empty example, feature and label sets, the zt of every
\* stump NewStump produced is strictly positive, and every weight stays
\* finite and non-negative.
C10_ZtPositive ==
    ~EmptyInput
        => /\ \A k \in DOMAIN H : Less(Zero, H[k].zt)
           /\ (obs.op = "Round" => Less(Zero, h.zt))
           /\ \A l \in stumper.labels : \A i \in DOMAIN Examples :
                 IsFinite(D[l][i]) /\ ~Less(D[l][i], Zero)

====
